---- MODULE Spec2Model ----
\* Model of src/src/components/VideoEncoder.tsx: the useFFmpeg hook, the
\* VideoEncoder component state, its effects and its event handlers, and the
\* asynchronous encode job started by handleEncode.
\*
\* Conventions
\*   - One action is one handler or one continuation of an async function, run
\*     to completion together with the React commit it causes (the re-render
\*     and the effect cleanups/effects of that commit).
\*   - Bitrates are counted in tenths of a Mbps (0.5 Mbps = 5, 10 Mbps = 100),
\*     the step of the bitrate NumberInput (step={0.1}).
\*   - Progress fractions are counted in percent (0.25 = 25).
\*   - Colors and file names are sequences of one-character strings, so that
\*     String.prototype.replace and String.prototype.split can be modelled
\*     on them.
\*   - Times are counted in milliseconds.
EXTENDS Integers, Sequences, FiniteSets, TLC

VARIABLES
  \* module-level singleton `ffmpeg` (line 52) and what load() did to it
  engine,           \* "Loading" | "Ready" | "LoadError": outcome of ffmpeg.load
  listeners,        \* sequence of component instances whose load() registered
                    \* a log and a progress listener on ffmpeg (lines 63-69)
  pendingLoads,     \* instances whose `await ffmpeg.load()` has not settled
  loadCalls,        \* number of ffmpeg.load() invocations so far
  \* the mounted VideoEncoder instance
  mounted,          \* is a VideoEncoder instance mounted
  inst,             \* number of the current (latest) instance
  \* useFFmpeg state (lines 55-57)
  loaded, progress, logs,
  \* VideoEncoder state (lines 319-326)
  selectedPreset, customResolution, customBitrate, file, isEncoding,
  scalingStrategy, backgroundColor, encodedVideoUrl,
  \* handleEncode invocations suspended at an await (lines 402, 411, 423)
  jobs,
  started,          \* number of jobs started so far (gives jobs their ids)
  \* browser object-URL registry for result blobs
  liveUrls,         \* created by URL.createObjectURL and not yet revoked
  liveAtCreate,     \* liveUrls as it was at the latest createObjectURL call
  \* observations
  emitted,          \* lines the engine emitted since the logs were last cleared
  lastNote,         \* the latest notifications.show call
  loadFailNotes,    \* number of "load failed" notifications shown
  clickIgnored,     \* the latest click on the encode button hit a disabled button
  calls,            \* the calls the latest step made to notifications.show,
                    \* clearLogs, ffmpeg, URL.createObjectURL,
                    \* URL.revokeObjectURL and a.click
  \* window
  beforeUnload,     \* number of registered beforeunload handlers
  now,              \* Date.now()
  \* useEncodingTime state (lines 97-99)
  startTimeRef, elapsedTime, estimatedTime

vars == <<engine, listeners, pendingLoads, loadCalls, mounted, inst,
          loaded, progress, logs,
          selectedPreset, customResolution, customBitrate, file, isEncoding,
          scalingStrategy, backgroundColor, encodedVideoUrl,
          jobs, started, liveUrls, liveAtCreate,
          emitted, lastNote, loadFailNotes, clickIgnored, calls,
          beforeUnload, now, startTimeRef, elapsedTime, estimatedTime>>

timeVars == <<startTimeRef, elapsedTime, estimatedTime>>
hookVars == <<loaded, progress, logs>>
settingVars == <<selectedPreset, customResolution, customBitrate,
                 scalingStrategy, backgroundColor>>
engineVars == <<engine, listeners, pendingLoads, loadCalls>>
mountVars == <<mounted, inst>>

----------------------------------------------------------------------------
\* Bounds of the model

MaxJobs == 2        \* jobs started in one behaviour
MaxLogLen == 2      \* length of the accumulated log
MaxMounts == 2      \* mounts of VideoEncoder in one behaviour (SpecRemount)
MaxTicks == 6       \* clock ticks in one behaviour (SpecTime)

----------------------------------------------------------------------------
\* Constants of the program

MIN_RESOLUTION == 100
MAX_RESOLUTION == 1920
MIN_BITRATE == 5
MAX_BITRATE == 100
DEFAULT_RESOLUTION == 480
DEFAULT_BITRATE == 10

CUSTOM == "custom"

\* PRESETS (lines 39-43); resolution 0 and bitrate "" stand for null.
PRESETS ==
  << [name |-> "sd", resolution |-> 480, bitrate |-> "1M"],
     [name |-> "hd", resolution |-> 720, bitrate |-> "1.5M"],
     [name |-> CUSTOM, resolution |-> 0, bitrate |-> ""] >>

PresetNames == {PRESETS[i].name : i \in 1..Len(PRESETS)}

\* PRESETS.find((p) => p.name === name) (line 383)
FindPreset(name) ==
  PRESETS[CHOOSE i \in 1..Len(PRESETS) : PRESETS[i].name = name]

NoFile == <<>>
NoUrl == 0
NoStart == -1

\* Inputs the user can give
Files == { <<"a", ".", "m", "p", "4">>,
           <<"a", ".", "b", ".", "m", "o", "v">> }
Resolutions == {99, 100, 480, 1920, 1921}
Bitrates == {4, 5, 10, 100, 101}
Strategies == {"cover", "contain"}
Colors == { <<"#", "0", "0", "0", "0", "0", "0">>,
            <<"#", "f", "f", "f", "f", "f", "f">> }
ProgressValues == {0, 25, 100}

NoError == [field |-> "none", min |-> 0, max |-> 0]

\* validateCustomSettings with the lower resolution bound made exclusive
validateExclusiveBound(resolution, bitrate) ==
  IF resolution <= MIN_RESOLUTION \/ resolution > MAX_RESOLUTION
  THEN [field |-> "resolution", min |-> MIN_RESOLUTION, max |-> MAX_RESOLUTION]
  ELSE IF bitrate < MIN_BITRATE \/ bitrate > MAX_BITRATE
  THEN [field |-> "bitrate", min |-> MIN_BITRATE, max |-> MAX_BITRATE]
  ELSE NoError

\* validateCustomSettings without its bitrate check
validateResolutionOnly(resolution, bitrate) ==
  IF resolution < MIN_RESOLUTION \/ resolution > MAX_RESOLUTION
  THEN [field |-> "resolution", min |-> MIN_RESOLUTION, max |-> MAX_RESOLUTION]
  ELSE NoError

\* validateCustomSettings (lines 131-139): the message names the field and
\* its range; NoError stands for null.
validateCustomSettings(resolution, bitrate) ==
  IF resolution < MIN_RESOLUTION \/ resolution > MAX_RESOLUTION
  THEN [field |-> "resolution", min |-> MIN_RESOLUTION, max |-> MAX_RESOLUTION]
  ELSE IF bitrate < MIN_BITRATE \/ bitrate > MAX_BITRATE
  THEN [field |-> "bitrate", min |-> MIN_BITRATE, max |-> MAX_BITRATE]
  ELSE NoError

\* Number-to-string of a bitrate given in tenths: 10 -> "1", 15 -> "1.5"
\* (the template literal `${customBitrate}` of line 405).
NumberToString(tenths) ==
  IF tenths % 10 = 0
  THEN ToString(tenths \div 10)
  ELSE ToString(tenths \div 10) \o "." \o ToString(tenths % 10)

\* `${customBitrate}`, without the unit
CustomBitrateArgNoUnit(tenths) == NumberToString(tenths)

\* `${customBitrate}M` (line 405)
CustomBitrateArg(tenths) == NumberToString(tenths) \o "M"

RECURSIVE Join(_)
\* The string made of a sequence of one-character strings
Join(chars) ==
  IF chars = <<>> THEN "" ELSE Head(chars) \o Join(Tail(chars))

RECURSIVE ReplaceFirst(_, _, _)
\* String.prototype.replace(pattern, replacement) with a one-character string
\* pattern: only the first occurrence is replaced (line 371)
ReplaceFirst(chars, c, with) ==
  IF chars = <<>> THEN <<>>
  ELSE IF Head(chars) = c THEN with \o Tail(chars)
  ELSE <<Head(chars)>> \o ReplaceFirst(Tail(chars), c, with)

RECURSIVE SplitHead(_, _)
\* String.prototype.split(sep)[0]: the characters before the first sep, or
\* all of them if there is none (line 428)
SplitHead(chars, sep) ==
  IF chars = <<>> \/ Head(chars) = sep THEN <<>>
  ELSE <<Head(chars)>> \o SplitHead(Tail(chars), sep)

\* The download attribute of the re-download button:
\* `encoded_${file.name}` (line 639)
RedownloadName(name) == "encoded_" \o Join(name)

\* The download attribute of the automatic download:
\* `encoded_${fileNameWithoutExt}.mp4` (lines 428-432)
AutoDownloadName(name) == "encoded_" \o Join(SplitHead(name, ".")) \o ".mp4"

\* getScalingFilter with the background color passed on as it is stored
getScalingFilterKeepsHash(strategy, color, resolution) ==
  IF strategy = "cover"
  THEN "crop=min(iw\\,ih):min(iw\\,ih),scale=" \o ToString(resolution)
         \o ":" \o ToString(resolution)
  ELSE "scale=" \o ToString(resolution) \o ":" \o ToString(resolution)
         \o ":force_original_aspect_ratio=decrease,pad=" \o ToString(resolution)
         \o ":" \o ToString(resolution) \o ":-1:-1:color=" \o Join(color)

\* getScalingFilter (lines 365-374), a closure over scalingStrategy and
\* backgroundColor, here passed explicitly
getScalingFilter(strategy, color, resolution) ==
  IF strategy = "cover"
  THEN "crop=min(iw\\,ih):min(iw\\,ih),scale=" \o ToString(resolution)
         \o ":" \o ToString(resolution)
  ELSE "scale=" \o ToString(resolution) \o ":" \o ToString(resolution)
         \o ":force_original_aspect_ratio=decrease,pad=" \o ToString(resolution)
         \o ":" \o ToString(resolution) \o ":-1:-1:color="
         \o Join(ReplaceFirst(color, "#", <<"0", "x">>))

----------------------------------------------------------------------------
\* Notifications (notifications.show)

NoNote == [kind |-> "none", error |-> NoError]
LoadFailedNote == [kind |-> "loadFailed", error |-> NoError]
ValidationNote(error) == [kind |-> "validation", error |-> error]
EncodeFailedNote == [kind |-> "encodeFailed", error |-> NoError]
SuccessNote == [kind |-> "success", error |-> NoError]

\* A call made by a step: its name, its argument as a string and, for the
\* calls that take or return an object URL, that URL
Call(op, arg, url) == [op |-> op, arg |-> arg, url |-> url]

\* notifications.show(...)
Notify(note) == Call("notifications.show", note.kind, NoUrl)

----------------------------------------------------------------------------
\* Effects

\* An encodedVideoUrl effect that returns no cleanup
encodedVideoUrlEffectNoCleanup(old, new, live) == live

\* The encodedVideoUrl effect (lines 349-356): when a commit changes
\* encodedVideoUrl, the cleanup of the previous run revokes the URL it
\* captured, if it captured one.
encodedVideoUrlEffect(old, new, live) ==
  IF old # NoUrl /\ new # old THEN live \ {old} ELSE live

\* The URL.revokeObjectURL call that cleanup makes (line 353), if it makes one
Revokes(old, new) ==
  IF old # NoUrl /\ new # old
  THEN <<Call("URL.revokeObjectURL", "", old)>>
  ELSE <<>>

\* Does a state update made by code of instance i reach a mounted component
Alive(i) == mounted /\ i = inst

\* A beforeunload effect that returns no cleanup
beforeUnloadEffectNoCleanup(old, new, handlers) ==
  IF new = old THEN handlers
  ELSE IF new THEN handlers + 1 ELSE handlers

\* The beforeunload effect (lines 331-347) when a commit takes isEncoding
\* from old to new: the cleanup of the previous run removes the handler that
\* run created, which is registered iff that run saw isEncoding; the new run
\* creates a fresh handler and adds it if isEncoding, and otherwise removes
\* it, which does nothing as it was never added.
beforeUnloadEffect(old, new, handlers) ==
  IF new = old THEN handlers
  ELSE (IF old THEN handlers - 1 ELSE handlers) + (IF new THEN 1 ELSE 0)

\* Math.floor(elapsed * progress)
EstimateByProduct(elapsed, percent) == (elapsed * percent) \div 100

\* Math.floor(elapsed / progress) (line 113), progress being percent / 100
EstimateTotal(elapsed, percent) == (elapsed * 100) \div percent

\* A useEncodingTime effect that takes the start timestamp anew in every run,
\* without the `startTimeRef.current === null` test
useEncodingTimeRecaptures(isActive, percent) ==
  IF isActive = isEncoding /\ percent = progress
  THEN UNCHANGED timeVars
  ELSE IF isActive /\ percent > 0
  THEN /\ startTimeRef' = now
       /\ elapsedTime' = 0
       /\ estimatedTime' = EstimateTotal(0, percent)
  ELSE IF ~isActive
  THEN /\ startTimeRef' = NoStart
       /\ elapsedTime' = 0
       /\ estimatedTime' = 0
  ELSE UNCHANGED timeVars

\* A useEncodingTime effect without its `else if (!isEncoding)` branch
useEncodingTimeNoReset(isActive, percent) ==
  IF isActive = isEncoding /\ percent = progress
  THEN UNCHANGED timeVars
  ELSE IF isActive /\ percent > 0
  THEN LET start == IF startTimeRef = NoStart THEN now ELSE startTimeRef
           elapsed == (now - start) \div 1000
       IN /\ startTimeRef' = start
          /\ elapsedTime' = elapsed
          /\ estimatedTime' = EstimateTotal(elapsed, percent)
  ELSE UNCHANGED timeVars

\* The effect of useEncodingTime (lines 101-120) for a commit that takes
\* (isEncoding, progress) to (isActive, percent); it runs only if one of its
\* two dependencies changed.
useEncodingTime(isActive, percent) ==
  IF isActive = isEncoding /\ percent = progress
  THEN UNCHANGED timeVars
  ELSE IF isActive /\ percent > 0
  THEN LET start == IF startTimeRef = NoStart THEN now ELSE startTimeRef
           elapsed == (now - start) \div 1000
       IN /\ startTimeRef' = start
          /\ elapsedTime' = elapsed
          /\ estimatedTime' = EstimateTotal(elapsed, percent)
  ELSE IF ~isActive
  THEN /\ startTimeRef' = NoStart
       /\ elapsedTime' = 0
       /\ estimatedTime' = 0
  ELSE UNCHANGED timeVars

\* The remaining time the progress label shows (lines 666-668)
RemainingTime ==
  IF estimatedTime - elapsedTime > 1 THEN estimatedTime - elapsedTime ELSE 1

\* A step that changes neither isEncoding nor progress runs neither effect
NoEffects == UNCHANGED <<beforeUnload, timeVars>>

\* A step that, besides, makes none of the recorded calls
Quiet == calls' = <<>> /\ NoEffects

----------------------------------------------------------------------------
\* Initial state: the first VideoEncoder instance has mounted and its mount
\* effect has run load() up to `await ffmpeg.load(...)` (lines 59-74).

Init ==
  /\ engine = "Loading"
  /\ listeners = <<1>>
  /\ pendingLoads = {1}
  /\ loadCalls = 1
  /\ mounted = TRUE
  /\ inst = 1
  /\ loaded = FALSE
  /\ progress = 0
  /\ logs = <<>>
  /\ selectedPreset = PRESETS[1].name
  /\ customResolution = DEFAULT_RESOLUTION
  /\ customBitrate = DEFAULT_BITRATE
  /\ file = NoFile
  /\ isEncoding = FALSE
  /\ scalingStrategy = "cover"
  /\ backgroundColor = <<"#", "0", "0", "0", "0", "0", "0">>
  /\ encodedVideoUrl = NoUrl
  /\ jobs = {}
  /\ started = 0
  /\ liveUrls = {}
  /\ liveAtCreate = {}
  /\ emitted = <<>>
  /\ lastNote = NoNote
  /\ loadFailNotes = 0
  /\ clickIgnored = FALSE
  /\ calls = <<>>
  /\ beforeUnload = 0
  /\ now = 0
  /\ startTimeRef = NoStart
  /\ elapsedTime = 0
  /\ estimatedTime = 0

----------------------------------------------------------------------------
\* Engine load (useFFmpeg's load, lines 60-84)

\* `await ffmpeg.load(...)` resolves; setLoaded(true) (line 75)
LoadResolves(i) ==
  /\ i \in pendingLoads
  /\ pendingLoads' = pendingLoads \ {i}
  /\ engine' = "Ready"
  /\ loaded' = IF Alive(i) THEN TRUE ELSE loaded
  /\ UNCHANGED <<listeners, loadCalls, mountVars, progress, logs, settingVars,
                 file, isEncoding, encodedVideoUrl, jobs, started, liveUrls,
                 liveAtCreate, emitted, lastNote, loadFailNotes, clickIgnored>>
  /\ Quiet /\ UNCHANGED now

\* What line 75 would do if it were (wrongly) run on the failure path too
LoadRejectsSetsLoaded(i) ==
  /\ i \in pendingLoads
  /\ pendingLoads' = pendingLoads \ {i}
  /\ engine' = IF engine = "Ready" THEN "Ready" ELSE "LoadError"
  /\ loaded' = IF Alive(i) THEN TRUE ELSE loaded
  /\ lastNote' = LoadFailedNote
  /\ loadFailNotes' = loadFailNotes + 1
  /\ UNCHANGED <<listeners, loadCalls, mountVars, progress, logs, settingVars,
                 file, isEncoding, encodedVideoUrl, jobs, started, liveUrls,
                 liveAtCreate, emitted, clickIgnored>>
  /\ calls' = <<Notify(LoadFailedNote)>>
  /\ NoEffects /\ UNCHANGED now

\* A catch block that calls load() again, once
LoadRejectsRetries(i) ==
  /\ i \in pendingLoads
  /\ lastNote' = LoadFailedNote
  /\ loadFailNotes' = loadFailNotes + 1
  /\ IF loadFailNotes = 0
     THEN /\ loadCalls' = loadCalls + 1
          /\ listeners' = Append(listeners, i)
          /\ UNCHANGED <<pendingLoads, engine>>
     ELSE /\ pendingLoads' = pendingLoads \ {i}
          /\ engine' = IF engine = "Ready" THEN "Ready" ELSE "LoadError"
          /\ UNCHANGED <<listeners, loadCalls>>
  /\ UNCHANGED <<mountVars, hookVars, settingVars,
                 file, isEncoding, encodedVideoUrl, jobs, started, liveUrls,
                 liveAtCreate, emitted, clickIgnored>>
  /\ calls' = <<Notify(LoadFailedNote)>>
  /\ NoEffects /\ UNCHANGED now

\* `await ffmpeg.load(...)` throws; the catch block shows a notification
\* (lines 76-83). Nothing else is done: loaded is left as it is.
LoadRejects(i) ==
  /\ i \in pendingLoads
  /\ pendingLoads' = pendingLoads \ {i}
  /\ engine' = IF engine = "Ready" THEN "Ready" ELSE "LoadError"
  /\ lastNote' = LoadFailedNote
  /\ loadFailNotes' = loadFailNotes + 1
  /\ UNCHANGED <<listeners, loadCalls, mountVars, hookVars, settingVars,
                 file, isEncoding, encodedVideoUrl, jobs, started, liveUrls,
                 liveAtCreate, emitted, clickIgnored>>
  /\ calls' = <<Notify(LoadFailedNote)>>
  /\ NoEffects /\ UNCHANGED now

----------------------------------------------------------------------------
\* User input. Every input widget is disabled while isEncoding (lines 471,
\* 508, 528, 544, 569, 578, 588).

\* A handleFileSelect that leaves the stored result URL in place
handleFileSelectKeepsUrl(selectedFile) ==
  /\ mounted /\ ~isEncoding
  /\ file' = selectedFile
  /\ UNCHANGED <<engineVars, mountVars, hookVars, settingVars, isEncoding,
                 encodedVideoUrl, liveUrls, jobs, started, liveAtCreate,
                 emitted, lastNote, loadFailNotes, clickIgnored>>
  /\ Quiet /\ UNCHANGED now

\* handleFileSelect (lines 358-363), reached through the FileButton
handleFileSelect(selectedFile) ==
  /\ mounted /\ ~isEncoding
  /\ encodedVideoUrl' = NoUrl
  /\ liveUrls' = encodedVideoUrlEffect(encodedVideoUrl, NoUrl, liveUrls)
  /\ file' = selectedFile
  /\ UNCHANGED <<engineVars, mountVars, hookVars, settingVars, isEncoding,
                 jobs, started, liveAtCreate, emitted, lastNote,
                 loadFailNotes, clickIgnored>>
  /\ calls' = Revokes(encodedVideoUrl, NoUrl)
  /\ NoEffects /\ UNCHANGED now

\* Radio.Group onChange={setSelectedPreset} (lines 490-515)
SelectPreset(name) ==
  /\ mounted /\ ~isEncoding
  /\ selectedPreset' = name
  /\ UNCHANGED <<engineVars, mountVars, hookVars, customResolution,
                 customBitrate, scalingStrategy, backgroundColor, file,
                 isEncoding, encodedVideoUrl, jobs, started, liveUrls,
                 liveAtCreate, emitted, lastNote, loadFailNotes, clickIgnored>>
  /\ Quiet /\ UNCHANGED now

\* The resolution NumberInput, rendered only for the custom preset
\* (lines 517-534)
SetCustomResolution(val) ==
  /\ mounted /\ ~isEncoding
  /\ selectedPreset = CUSTOM
  /\ customResolution' = val
  /\ UNCHANGED <<engineVars, mountVars, hookVars, selectedPreset,
                 customBitrate, scalingStrategy, backgroundColor, file,
                 isEncoding, encodedVideoUrl, jobs, started, liveUrls,
                 liveAtCreate, emitted, lastNote, loadFailNotes, clickIgnored>>
  /\ Quiet /\ UNCHANGED now

\* The bitrate NumberInput (lines 535-550)
SetCustomBitrate(val) ==
  /\ mounted /\ ~isEncoding
  /\ selectedPreset = CUSTOM
  /\ customBitrate' = val
  /\ UNCHANGED <<engineVars, mountVars, hookVars, selectedPreset,
                 customResolution, scalingStrategy, backgroundColor, file,
                 isEncoding, encodedVideoUrl, jobs, started, liveUrls,
                 liveAtCreate, emitted, lastNote, loadFailNotes, clickIgnored>>
  /\ Quiet /\ UNCHANGED now

\* ScalingOptionCard onChange={setScalingStrategy} (lines 555-579)
SetScalingStrategy(value) ==
  /\ mounted /\ ~isEncoding
  /\ scalingStrategy' = value
  /\ UNCHANGED <<engineVars, mountVars, hookVars, selectedPreset,
                 customResolution, customBitrate, backgroundColor, file,
                 isEncoding, encodedVideoUrl, jobs, started, liveUrls,
                 liveAtCreate, emitted, lastNote, loadFailNotes, clickIgnored>>
  /\ Quiet /\ UNCHANGED now

\* ColorInput onChange={setBackgroundColor} (lines 581-589)
SetBackgroundColor(value) ==
  /\ mounted /\ ~isEncoding
  /\ backgroundColor' = value
  /\ UNCHANGED <<engineVars, mountVars, hookVars, selectedPreset,
                 customResolution, customBitrate, scalingStrategy, file,
                 isEncoding, encodedVideoUrl, jobs, started, liveUrls,
                 liveAtCreate, emitted, lastNote, loadFailNotes, clickIgnored>>
  /\ Quiet /\ UNCHANGED now

\* A clearLogs that resets the progress as well
ClickClearLogsResetsProgress ==
  /\ mounted
  /\ Len(logs) > 0
  /\ logs' = <<>>
  /\ emitted' = <<>>
  /\ progress' = 0
  /\ calls' = <<Call("clearLogs", "", NoUrl)>>
  /\ NoEffects
  /\ UNCHANGED <<engineVars, mountVars, loaded, settingVars, file,
                 isEncoding, encodedVideoUrl, jobs, started, liveUrls,
                 liveAtCreate, lastNote, loadFailNotes, clickIgnored, now>>

\* clearLogs (lines 89-91) through the clear-logs button, which is rendered
\* only when logs.length > 0 (lines 675-684)
ClickClearLogs ==
  /\ mounted
  /\ Len(logs) > 0
  /\ logs' = <<>>
  /\ emitted' = <<>>
  /\ UNCHANGED <<engineVars, mountVars, loaded, progress, settingVars, file,
                 isEncoding, encodedVideoUrl, jobs, started, liveUrls,
                 liveAtCreate, lastNote, loadFailNotes, clickIgnored>>
  /\ calls' = <<Call("clearLogs", "", NoUrl)>>
  /\ NoEffects /\ UNCHANGED now

----------------------------------------------------------------------------
\* The encode trigger

NoArgs == [filter |-> "", bitrate |-> "", resolution |-> 0]

\* The job a handleEncode invocation becomes at its first await: the values
\* its closure captured (the dependency list of lines 450-460), and the
\* engine calls it has made so far
NewJob ==
  [ id |-> started + 1,
    inst |-> inst,
    phase |-> "staging",
    file |-> file,
    preset |-> selectedPreset,
    customResolution |-> customResolution,
    customBitrate |-> customBitrate,
    scalingStrategy |-> scalingStrategy,
    backgroundColor |-> backgroundColor,
    args |-> NoArgs,
    trace |-> <<"writeFile">> ]

\* A handleEncode that validates the custom settings before it clears the
\* stored result URL, so that a rejected trigger leaves the URL in place
handleEncodeValidatesFirst ==
  IF file = NoFile \/ ~loaded
  THEN /\ Quiet
       /\ UNCHANGED <<hookVars, file, isEncoding, encodedVideoUrl, jobs,
                      started, liveUrls, emitted, lastNote>>
  ELSE
    LET preset == FindPreset(selectedPreset)
        error == IF preset.name = CUSTOM
                 THEN validateCustomSettings(customResolution, customBitrate)
                 ELSE NoError
    IN
      IF error # NoError
      THEN /\ lastNote' = ValidationNote(error)
           /\ calls' = <<Notify(ValidationNote(error))>>
           /\ NoEffects
           /\ UNCHANGED <<hookVars, file, isEncoding, encodedVideoUrl, jobs,
                          started, liveUrls, emitted>>
      ELSE /\ encodedVideoUrl' = NoUrl
           /\ liveUrls' = encodedVideoUrlEffect(encodedVideoUrl, NoUrl,
                                                liveUrls)
           /\ isEncoding' = TRUE
           /\ logs' = <<>>
           /\ emitted' = <<>>
           /\ jobs' = jobs \cup {NewJob}
           /\ started' = started + 1
           /\ calls' = <<Call("clearLogs", "", NoUrl)>>
                         \o Revokes(encodedVideoUrl, NoUrl)
                         \o <<Call("ffmpeg.writeFile", "input.mp4", NoUrl)>>
           /\ beforeUnload' = beforeUnloadEffect(isEncoding, TRUE,
                                                 beforeUnload)
           /\ useEncodingTime(TRUE, progress)
           /\ UNCHANGED <<loaded, progress, file, lastNote>>

\* handleEncode from its entry to its first await (lines 376-402)
handleEncode ==
  IF file = NoFile \/ ~loaded
  THEN /\ Quiet
       /\ UNCHANGED <<hookVars, file, isEncoding, encodedVideoUrl, jobs,
                      started, liveUrls, emitted, lastNote>>
  ELSE
    LET preset == FindPreset(selectedPreset)
        error == IF preset.name = CUSTOM
                 THEN validateCustomSettings(customResolution, customBitrate)
                 ELSE NoError
    IN
      \* lines 379-381, and the encodedVideoUrl effect of the commit
      /\ encodedVideoUrl' = NoUrl
      /\ liveUrls' = encodedVideoUrlEffect(encodedVideoUrl, NoUrl, liveUrls)
      /\ IF error # NoError
         THEN \* lines 388-395
              /\ lastNote' = ValidationNote(error)
              /\ calls' = <<Notify(ValidationNote(error))>>
                            \o Revokes(encodedVideoUrl, NoUrl)
              /\ NoEffects
              /\ UNCHANGED <<hookVars, file, isEncoding, jobs, started, emitted>>
         ELSE \* lines 399-402, and the effects of the commit
              /\ isEncoding' = TRUE
              /\ logs' = <<>>
              /\ emitted' = <<>>
              /\ jobs' = jobs \cup {NewJob}
              /\ started' = started + 1
              /\ calls' = <<Call("clearLogs", "", NoUrl)>>
                            \o Revokes(encodedVideoUrl, NoUrl)
                            \o <<Call("ffmpeg.writeFile", "input.mp4", NoUrl)>>
              /\ beforeUnload' = beforeUnloadEffect(isEncoding, TRUE,
                                                    beforeUnload)
              /\ useEncodingTime(TRUE, progress)
              /\ UNCHANGED <<loaded, progress, file, lastNote>>

\* A button that only honours its disabled prop
EncodeButtonIgnoresLoading == file # NoFile /\ loaded

\* The encode Button (line 627): disabled={!file || !loaded}, and
\* loading={isEncoding}, which makes the Button disabled as well
EncodeButtonEnabled == ~(file = NoFile \/ ~loaded) /\ ~isEncoding

\* A click on the encode Button: onClick={handleEncode} if the Button is
\* enabled, nothing otherwise
ClickEncode ==
  /\ mounted
  /\ IF EncodeButtonEnabled
     THEN /\ started < MaxJobs
          /\ handleEncode
          /\ clickIgnored' = FALSE
     ELSE /\ clickIgnored' = TRUE
          /\ Quiet
          /\ UNCHANGED <<hookVars, file, isEncoding, encodedVideoUrl, jobs,
                         started, liveUrls, emitted, lastNote>>
  /\ UNCHANGED <<engineVars, mountVars, settingVars, liveAtCreate,
                 loadFailNotes, now>>

----------------------------------------------------------------------------
\* The encode job: the continuations of handleEncode (lines 402-449)

Replace(j, k) == (jobs \ {j}) \cup {k}

\* A catch block not followed by the finally block
CatchOnly(j) ==
  /\ jobs' = jobs \ {j}
  /\ lastNote' = [kind |-> "encodeFailed", error |-> NoError]
  /\ UNCHANGED <<engine, listeners, pendingLoads, loadCalls, mounted, inst,
                 hookVars, settingVars, file, isEncoding,
                 encodedVideoUrl, started, liveUrls, liveAtCreate, emitted,
                 loadFailNotes, clickIgnored>>
  /\ calls' = <<Notify(EncodeFailedNote)>>
  /\ NoEffects /\ UNCHANGED now

\* A success notification placed in the finally block, hence shown on the
\* failure path as well
CatchFinallyNotifiesSuccess(j) ==
  /\ jobs' = jobs \ {j}
  /\ lastNote' = SuccessNote
  /\ calls' = <<Notify(EncodeFailedNote), Notify(SuccessNote)>>
  /\ LET active == IF Alive(j.inst) THEN FALSE ELSE isEncoding
     IN /\ isEncoding' = active
        /\ beforeUnload' = beforeUnloadEffect(isEncoding, active, beforeUnload)
        /\ useEncodingTime(active, progress)
  /\ UNCHANGED <<engineVars, mountVars, hookVars, settingVars, file,
                 encodedVideoUrl, started, liveUrls, liveAtCreate, emitted,
                 loadFailNotes, clickIgnored, now>>

\* The catch and finally blocks (lines 440-449): a generic failure
\* notification, then setIsEncoding(false), and the effects of the commit
CatchFinally(j) ==
  /\ jobs' = jobs \ {j}
  /\ lastNote' = EncodeFailedNote
  /\ calls' = <<Notify(EncodeFailedNote)>>
  /\ LET active == IF Alive(j.inst) THEN FALSE ELSE isEncoding
     IN /\ isEncoding' = active
        /\ beforeUnload' = beforeUnloadEffect(isEncoding, active, beforeUnload)
        /\ useEncodingTime(active, progress)
  /\ UNCHANGED <<engineVars, mountVars, hookVars, settingVars, file,
                 encodedVideoUrl, started, liveUrls, liveAtCreate, emitted,
                 loadFailNotes, clickIgnored, now>>

\* A continuation that reads the settings from the component's current
\* state instead of from the values its closure captured
WriteFileResolvesReadsState(j) ==
  /\ j \in jobs /\ j.phase = "staging"
  /\ LET preset == FindPreset(selectedPreset)
         resolution == IF preset.name = CUSTOM
                       THEN customResolution ELSE preset.resolution
         bitrate == IF preset.name = CUSTOM
                    THEN CustomBitrateArg(customBitrate)
                    ELSE IF preset.bitrate # "" THEN preset.bitrate ELSE "1M"
         filter == getScalingFilter(scalingStrategy, backgroundColor,
                                    resolution)
     IN /\ jobs' = Replace(j,
               [j EXCEPT !.phase = "executing",
                         !.args = [ filter |-> filter,
                                    bitrate |-> bitrate,
                                    resolution |-> resolution ],
                         !.trace = Append(j.trace, "exec")])
        /\ calls' = <<Call("ffmpeg.exec", filter \o " " \o bitrate, NoUrl)>>
        /\ NoEffects
        /\ UNCHANGED <<engineVars, mountVars, hookVars, settingVars, file,
                       isEncoding, encodedVideoUrl, started, liveUrls,
                       liveAtCreate, emitted, lastNote, loadFailNotes,
                       clickIgnored, now>>

\* A continuation that does not await ffmpeg.exec: readFile is called in the
\* same step, while exec is running
WriteFileResolvesNoAwait(j) ==
  /\ j \in jobs /\ j.phase = "staging"
  /\ LET preset == FindPreset(j.preset)
         resolution == IF preset.name = CUSTOM
                       THEN j.customResolution ELSE preset.resolution
         bitrate == IF preset.name = CUSTOM
                    THEN CustomBitrateArg(j.customBitrate)
                    ELSE IF preset.bitrate # "" THEN preset.bitrate ELSE "1M"
         filter == getScalingFilter(j.scalingStrategy, j.backgroundColor,
                                    resolution)
     IN /\ jobs' = Replace(j,
               [j EXCEPT !.phase = "extracting",
                         !.args = [ filter |-> filter,
                                    bitrate |-> bitrate,
                                    resolution |-> resolution ],
                         !.trace = j.trace \o <<"exec", "readFile">>])
        /\ calls' = << Call("ffmpeg.exec", filter \o " " \o bitrate, NoUrl),
                       Call("ffmpeg.readFile", "output.mp4", NoUrl) >>
        /\ NoEffects
        /\ UNCHANGED <<engineVars, mountVars, hookVars, settingVars, file,
                       isEncoding, encodedVideoUrl, started, liveUrls,
                       liveAtCreate, emitted, lastNote, loadFailNotes,
                       clickIgnored, now>>

\* fetchFile and ffmpeg.writeFile("input.mp4", ...) have resolved (line 402);
\* the settings are resolved (lines 404-409) and ffmpeg.exec is called
\* (lines 411-421)
WriteFileResolves(j) ==
  /\ j \in jobs /\ j.phase = "staging"
  /\ LET preset == FindPreset(j.preset)
         resolution == IF preset.name = CUSTOM
                       THEN j.customResolution ELSE preset.resolution
         bitrate == IF preset.name = CUSTOM
                    THEN CustomBitrateArg(j.customBitrate)
                    ELSE IF preset.bitrate # "" THEN preset.bitrate ELSE "1M"
     IN IF resolution = 0
        THEN CatchFinally(j)
        ELSE /\ jobs' = Replace(j,
                  [j EXCEPT !.phase = "executing",
                            !.args = [ filter |-> getScalingFilter(
                                           j.scalingStrategy, j.backgroundColor,
                                           resolution),
                                       bitrate |-> bitrate,
                                       resolution |-> resolution ],
                            !.trace = Append(j.trace, "exec")])
             /\ calls' = <<Call("ffmpeg.exec",
                                getScalingFilter(j.scalingStrategy,
                                                 j.backgroundColor, resolution)
                                  \o " " \o bitrate,
                                NoUrl)>>
             /\ NoEffects /\ UNCHANGED now
             /\ UNCHANGED <<engineVars, mountVars, hookVars, settingVars, file,
                            isEncoding, encodedVideoUrl, started, liveUrls,
                            liveAtCreate, emitted, lastNote, loadFailNotes,
                            clickIgnored>>

\* ffmpeg.exec has resolved (line 421); ffmpeg.readFile("output.mp4") is
\* called (line 423)
ExecResolves(j) ==
  /\ j \in jobs /\ j.phase = "executing"
  /\ jobs' = Replace(j, [j EXCEPT !.phase = "extracting",
                                   !.trace = Append(j.trace, "readFile")])
  /\ calls' = <<Call("ffmpeg.readFile", "output.mp4", NoUrl)>>
  /\ NoEffects
  /\ UNCHANGED <<engineVars, mountVars, hookVars, settingVars, file,
                 isEncoding, encodedVideoUrl, started, liveUrls, liveAtCreate,
                 emitted, lastNote, loadFailNotes, clickIgnored, now>>

\* ffmpeg.readFile has resolved (line 423): the result URL is created and
\* stored, the download is triggered, success is notified (lines 424-439) and
\* the finally block runs (line 448). Job j's URL is numbered j.id.
ReadFileResolves(j) ==
  /\ j \in jobs /\ j.phase = "extracting"
  /\ liveAtCreate' = liveUrls
  /\ encodedVideoUrl' = IF Alive(j.inst) THEN j.id ELSE encodedVideoUrl
  /\ liveUrls' = IF Alive(j.inst)
                 THEN encodedVideoUrlEffect(encodedVideoUrl, j.id,
                                            liveUrls \cup {j.id})
                 ELSE liveUrls \cup {j.id}
  /\ lastNote' = SuccessNote
  /\ calls' = << Call("URL.createObjectURL", "", j.id),
                 Call("a.click", AutoDownloadName(j.file), j.id),
                 Notify(SuccessNote) >>
               \o (IF Alive(j.inst) THEN Revokes(encodedVideoUrl, j.id)
                   ELSE <<>>)
  /\ LET active == IF Alive(j.inst) THEN FALSE ELSE isEncoding
     IN /\ isEncoding' = active
        /\ beforeUnload' = beforeUnloadEffect(isEncoding, active, beforeUnload)
        /\ useEncodingTime(active, progress)
  /\ jobs' = jobs \ {j}
  /\ UNCHANGED <<engineVars, mountVars, hookVars, settingVars, file, started,
                 emitted, loadFailNotes, clickIgnored, now>>

\* fetchFile/writeFile, exec or readFile has thrown: control goes to the
\* catch block
StepRejects(j) ==
  /\ j \in jobs
  /\ CatchFinally(j)

----------------------------------------------------------------------------
\* Engine events, delivered to the listeners load() registered. The engine
\* emits them while it executes a command.

Executing == \E j \in jobs : j.phase = "executing"

\* The line the engine emits next. Lines are told apart by their place in
\* the engine's output since the logs were last cleared.
NextLine == Len(emitted) + 1

\* The number of registered listeners whose state setter reaches the mounted
\* component
LiveListeners ==
  Cardinality({k \in 1..Len(listeners) : Alive(listeners[k])})

RECURSIVE Repeat(_, _)
Repeat(x, n) == IF n = 0 THEN <<>> ELSE <<x>> \o Repeat(x, n - 1)

\* A log listener that puts the new line first: [message, ...prev]
EngineLogPrepends(message) ==
  /\ Executing
  /\ Len(emitted) < MaxLogLen
  /\ Len(logs) + LiveListeners <= MaxLogLen
  /\ logs' = Repeat(message, LiveListeners) \o logs
  /\ emitted' = Append(emitted, message)
  /\ UNCHANGED <<engineVars, mountVars, loaded, progress, settingVars, file,
                 isEncoding, encodedVideoUrl, jobs, started, liveUrls,
                 liveAtCreate, lastNote, loadFailNotes, clickIgnored>>
  /\ Quiet /\ UNCHANGED now

\* The log listener (lines 63-66): setLogs((prev) => [...prev, message]),
\* once per registered listener
EngineLog(message) ==
  /\ Executing
  /\ Len(emitted) < MaxLogLen
  /\ Len(logs) + LiveListeners <= MaxLogLen
  /\ logs' = logs \o Repeat(message, LiveListeners)
  /\ emitted' = Append(emitted, message)
  /\ UNCHANGED <<engineVars, mountVars, loaded, progress, settingVars, file,
                 isEncoding, encodedVideoUrl, jobs, started, liveUrls,
                 liveAtCreate, lastNote, loadFailNotes, clickIgnored>>
  /\ Quiet /\ UNCHANGED now

\* The progress listener (lines 67-69): setProgress(progress), and the
\* useEncodingTime effect of the commit
EngineProgress(value) ==
  /\ Executing
  /\ LET percent == IF LiveListeners > 0 THEN value ELSE progress
     IN /\ progress' = percent
        /\ useEncodingTime(isEncoding, percent)
  /\ calls' = <<>>
  /\ UNCHANGED <<beforeUnload, now>>
  /\ UNCHANGED <<engineVars, mountVars, loaded, logs, settingVars, file,
                 isEncoding, encodedVideoUrl, jobs, started, liveUrls,
                 liveAtCreate, emitted, lastNote, loadFailNotes, clickIgnored>>

----------------------------------------------------------------------------
\* The re-download button (lines 631-648), rendered when
\* encodedVideoUrl && !isEncoding && file

Redownload ==
  /\ mounted
  /\ encodedVideoUrl # NoUrl /\ ~isEncoding /\ file # NoFile
  /\ calls' = <<Call("a.click", RedownloadName(file), encodedVideoUrl)>>
  /\ NoEffects
  /\ UNCHANGED <<engineVars, mountVars, hookVars, settingVars, file,
                 isEncoding, encodedVideoUrl, jobs, started, liveUrls,
                 liveAtCreate, emitted, lastNote, loadFailNotes, clickIgnored,
                 now>>

----------------------------------------------------------------------------
\* The clock read by Date.now() (line 103) advances by half a second

Tick ==
  /\ now < MaxTicks * 500
  /\ now' = now + 500
  /\ UNCHANGED <<engineVars, mountVars, hookVars, settingVars, file,
                 isEncoding, encodedVideoUrl, jobs, started, liveUrls,
                 liveAtCreate, emitted, lastNote, loadFailNotes, clickIgnored,
                 calls, beforeUnload, timeVars>>

----------------------------------------------------------------------------
\* Mounting and unmounting VideoEncoder

\* The component unmounts: its state is discarded and the effect cleanups
\* run (lines 344-346, 351-355): the beforeunload handler of the latest
\* effect run is removed. Suspended handleEncode invocations and
\* pending loads go on.
Unmount ==
  /\ mounted
  /\ inst < MaxMounts
  /\ mounted' = FALSE
  /\ liveUrls' = encodedVideoUrlEffect(encodedVideoUrl, NoUrl, liveUrls)
  /\ loaded' = FALSE /\ progress' = 0 /\ logs' = <<>>
  /\ selectedPreset' = PRESETS[1].name
  /\ customResolution' = DEFAULT_RESOLUTION
  /\ customBitrate' = DEFAULT_BITRATE
  /\ file' = NoFile
  /\ isEncoding' = FALSE
  /\ scalingStrategy' = "cover"
  /\ backgroundColor' = <<"#", "0", "0", "0", "0", "0", "0">>
  /\ encodedVideoUrl' = NoUrl
  /\ emitted' = <<>>
  /\ clickIgnored' = FALSE
  /\ calls' = Revokes(encodedVideoUrl, NoUrl)
  /\ beforeUnload' = beforeUnloadEffect(isEncoding, FALSE, beforeUnload)
  /\ startTimeRef' = NoStart /\ elapsedTime' = 0 /\ estimatedTime' = 0
  /\ UNCHANGED <<engineVars, inst, jobs, started, liveAtCreate, lastNote,
                 loadFailNotes, now>>

\* A new instance mounts with the initial state of lines 55-57 and 319-326;
\* its mount effect runs load() (lines 59-87) up to `await ffmpeg.load`:
\* the listeners are registered and ffmpeg.load is called, whatever the
\* state of the engine.
Mount ==
  /\ ~mounted
  /\ inst < MaxMounts
  /\ mounted' = TRUE
  /\ inst' = inst + 1
  /\ listeners' = Append(listeners, inst + 1)
  /\ pendingLoads' = pendingLoads \cup {inst + 1}
  /\ loadCalls' = loadCalls + 1
  /\ engine' = IF engine = "Ready" THEN "Ready" ELSE "Loading"
  /\ UNCHANGED <<hookVars, settingVars, file, isEncoding, encodedVideoUrl,
                 jobs, started, liveUrls, liveAtCreate, emitted, lastNote,
                 loadFailNotes, clickIgnored>>
  /\ Quiet /\ UNCHANGED now

----------------------------------------------------------------------------
\* Specifications

\* The application as App renders it (lines 718-731): VideoEncoder is
\* mounted once and stays mounted.
Next ==
  \/ \E i \in pendingLoads : LoadResolves(i)
  \/ \E i \in pendingLoads : LoadRejects(i)
  \/ \E f \in Files : handleFileSelect(f)
  \/ \E n \in PresetNames : SelectPreset(n)
  \/ \E r \in Resolutions : SetCustomResolution(r)
  \/ \E b \in Bitrates : SetCustomBitrate(b)
  \/ \E s \in Strategies : SetScalingStrategy(s)
  \/ \E c \in Colors : SetBackgroundColor(c)
  \/ ClickClearLogs
  \/ ClickEncode
  \/ Redownload
  \/ \E j \in jobs : WriteFileResolves(j)
  \/ \E j \in jobs : ExecResolves(j)
  \/ \E j \in jobs : ReadFileResolves(j)
  \/ \E j \in jobs : StepRejects(j)
  \/ EngineLog(NextLine)
  \/ \E p \in ProgressValues : EngineProgress(p)

Spec == Init /\ [][Next]_vars

\* Every engine call of a job settles: its promise resolves or rejects.
JobStep ==
  \/ \E j \in jobs : WriteFileResolves(j)
  \/ \E j \in jobs : ExecResolves(j)
  \/ \E j \in jobs : ReadFileResolves(j)
  \/ \E j \in jobs : StepRejects(j)

FairSpec == Spec /\ WF_vars(JobStep)

\* The useFFmpeg hook under repeated mounts of its component, with the
\* encode settings left at their defaults
NextRemount ==
  \/ \E i \in pendingLoads : LoadResolves(i)
  \/ \E i \in pendingLoads : LoadRejects(i)
  \/ \E f \in Files : handleFileSelect(f)
  \/ ClickClearLogs
  \/ ClickEncode
  \/ \E j \in jobs : WriteFileResolves(j)
  \/ \E j \in jobs : ExecResolves(j)
  \/ \E j \in jobs : ReadFileResolves(j)
  \/ \E j \in jobs : StepRejects(j)
  \/ EngineLog(NextLine)
  \/ \E p \in ProgressValues : EngineProgress(p)
  \/ Unmount
  \/ Mount

SpecRemount == Init /\ [][NextRemount]_vars

\* The component's life cycle: jobs, unmounts and remounts, with the scaling
\* strategy editable, the other settings left at their defaults and the
\* engine's events left out
NextLifecycle ==
  \/ \E i \in pendingLoads : LoadResolves(i)
  \/ \E f \in Files : handleFileSelect(f)
  \/ \E s \in Strategies : SetScalingStrategy(s)
  \/ ClickEncode
  \/ \E j \in jobs : WriteFileResolves(j)
  \/ \E j \in jobs : ExecResolves(j)
  \/ \E j \in jobs : ReadFileResolves(j)
  \/ \E j \in jobs : StepRejects(j)
  \/ Unmount
  \/ Mount

SpecLifecycle == Init /\ [][NextLifecycle]_vars

\* The application with a running clock, the encode settings left at their
\* defaults and the engine's log output left out
NextTime ==
  \/ \E i \in pendingLoads : LoadResolves(i)
  \/ \E f \in Files : handleFileSelect(f)
  \/ ClickEncode
  \/ \E j \in jobs : WriteFileResolves(j)
  \/ \E j \in jobs : ExecResolves(j)
  \/ \E j \in jobs : ReadFileResolves(j)
  \/ \E j \in jobs : StepRejects(j)
  \/ \E p \in ProgressValues : EngineProgress(p)
  \/ Tick

SpecTime == Init /\ [][NextTime]_vars

----------------------------------------------------------------------------
\* Properties

\* Everything a click on the encode Button could change, but the record of
\* the click itself
observable == <<engine, listeners, pendingLoads, loadCalls, mounted, inst,
                loaded, progress, logs,
                selectedPreset, customResolution, customBitrate, file,
                isEncoding, scalingStrategy, backgroundColor, encodedVideoUrl,
                jobs, started, liveUrls, liveAtCreate, emitted, lastNote,
                loadFailNotes>>

\* C1: a click on the encode trigger while a job is in flight changes
\* nothing (no job is started, no result handle is touched, nothing is
\* notified), and at most one job is active in every reachable state.
C1_RetriggerIsNoOp ==
  /\ [](Cardinality(jobs) <= 1)
  /\ [][(isEncoding /\ ClickEncode) => UNCHANGED observable]_vars

\* A click has been swallowed while the one job was executing
C1_Witness ==
  /\ isEncoding
  /\ clickIgnored
  /\ \E j \in jobs : j.phase = "executing"

\* C2: the in-flight flag is set only while a job has an engine call
\* pending, and once set it is eventually cleared, whichever way writeFile,
\* exec and readFile settle.
C2_FlagEventuallyCleared ==
  /\ [](isEncoding => jobs # {})
  /\ (isEncoding ~> ~isEncoding)

\* A second job has been started after the first one failed
C2_Witness ==
  /\ started = 2
  /\ isEncoding
  /\ lastNote = EncodeFailedNote

\* C3: a job is in flight, or an engine call of a job is pending, only if
\* loaded is true and the engine is Ready.
C3_JobOnlyWhenReady ==
  (isEncoding \/ jobs # {}) => (loaded /\ engine = "Ready")

\* The engine executes a job's command, the engine being Ready
C3_Witness ==
  /\ isEncoding
  /\ loaded
  /\ \E j \in jobs : j.phase = "executing"

\* C4: a trigger with the custom preset is rejected exactly when
\* customResolution is outside [100,1920] or customBitrate is outside
\* [0.5,10] Mbps; a rejected trigger shows the validation error of the
\* offending field (resolution first) with its range, starts no job (so no
\* engine call), leaves the in-flight flag clear, and shows no generic
\* failure; an accepted one starts a job.
C4_CustomValidation ==
  [][ (ClickEncode /\ EncodeButtonEnabled /\ selectedPreset = CUSTOM) =>
        LET badResolution == customResolution < 100 \/ customResolution > 1920
            badBitrate == customBitrate < 5 \/ customBitrate > 100
        IN IF badResolution \/ badBitrate
           THEN /\ jobs' = jobs
                /\ started' = started
                /\ ~isEncoding'
                /\ lastNote' =
                     [ kind |-> "validation",
                       error |-> IF badResolution
                                 THEN [field |-> "resolution",
                                       min |-> 100, max |-> 1920]
                                 ELSE [field |-> "bitrate",
                                       min |-> 5, max |-> 100] ]
           ELSE /\ isEncoding'
                /\ Cardinality(jobs') = Cardinality(jobs) + 1
                /\ lastNote' = lastNote ]_vars

\* A trigger has been rejected for its bitrate, the resolution being on the
\* boundary of its range
C4_Witness ==
  /\ lastNote.kind = "validation"
  /\ lastNote.error.field = "bitrate"
  /\ selectedPreset = CUSTOM
  /\ customResolution = 100
  /\ customBitrate = 101
  /\ ~isEncoding
  /\ ~clickIgnored

\* C5: every exec invocation carries a resolution in [100,1920], used in its
\* filter expression, and a -b:v argument of a bitrate in [0.5,10] Mbps.
C5_ExecArgsInRange ==
  \A j \in jobs :
    j.phase \in {"executing", "extracting"} =>
      /\ j.args.resolution >= 100 /\ j.args.resolution <= 1920
      /\ j.args.filter = getScalingFilter(j.scalingStrategy, j.backgroundColor,
                                          j.args.resolution)
      /\ \E t \in 5..100 : j.args.bitrate = NumberToString(t) \o "M"

\* exec runs with custom values on the boundaries of both ranges
C5_Witness ==
  \E j \in jobs :
    /\ j.phase = "executing"
    /\ j.preset = CUSTOM
    /\ j.args.resolution = 1920
    /\ j.args.bitrate = "0.5M"

\* C6: when a job creates its result handle every handle created earlier
\* has been revoked, and at most one unrevoked result handle exists.
C6_PreviousHandleReleased ==
  /\ liveAtCreate = {}
  /\ Cardinality(liveUrls) <= 1

\* The second job's handle is stored and is the only live one
C6_Witness ==
  /\ encodedVideoUrl = 2
  /\ liveUrls = {2}

\* C7: a job that has just been started, the engine having emitted no
\* progress for it yet, shows progress 0.
C7_ProgressRestartsAtZero ==
  \A j \in jobs : j.phase = "staging" => progress = 0

\* C8: the accumulated log is the sequence of the lines the engine emitted
\* since the last clear, in order, each once.
C8_LogsInEmissionOrder == logs = emitted

\* Two lines have been forwarded during the second job, after progress was
\* reported
C8_Witness ==
  /\ logs = <<1, 2>>
  /\ progress = 25
  /\ started = 2

\* C9: ffmpeg.load is called, and the listeners are registered, at most once,
\* however often the hook is mounted.
C9_SingleLoad ==
  /\ loadCalls <= 1
  /\ Len(listeners) <= 1

\* C10: after a failed load the failure has been notified once, no other load
\* was made or is pending, loaded is false, no job exists, and this stays so.
C10_LoadFailureIsFinal ==
  /\ [](engine = "LoadError" =>
          /\ ~loaded
          /\ ~isEncoding
          /\ jobs = {}
          /\ started = 0
          /\ loadFailNotes = 1
          /\ loadCalls = 1
          /\ pendingLoads = {})
  /\ [][engine = "LoadError" => engine' = "LoadError"]_vars

\* After the load failed, a file was selected and the trigger was clicked
C10_Witness ==
  /\ engine = "LoadError"
  /\ lastNote = LoadFailedNote
  /\ file # NoFile
  /\ clickIgnored

\* C11: when writeFile, exec or readFile throws, the job ends there: the
\* step shows the generic failure notification and makes no other call (no
\* success notification, no createObjectURL, no download, no further engine
\* call), no object URL is created, and encodedVideoUrl is and stays null.
C11_FailureEndsJob ==
  [][\A j \in jobs :
       StepRejects(j) =>
         /\ calls' = <<Notify(EncodeFailedNote)>>
         /\ lastNote' = EncodeFailedNote
         /\ \A k \in jobs' : k.id # j.id
         /\ liveUrls' = liveUrls
         /\ encodedVideoUrl = NoUrl /\ encodedVideoUrl' = NoUrl]_vars

\* exec threw after the engine had emitted a log line
C11_Witness ==
  /\ calls = <<Notify(EncodeFailedNote)>>
  /\ Len(emitted) > 0
  /\ jobs = {}
  /\ encodedVideoUrl = NoUrl
  /\ liveUrls = {}

\* C12: in every state (effects settled) exactly one beforeunload handler is
\* registered if a mounted component has isEncoding true, and none
\* otherwise: never more than one, none after the job ended, none after the
\* component unmounted.
C12_HandlerIffEncoding ==
  /\ beforeUnload = IF mounted /\ isEncoding THEN 1 ELSE 0
  /\ ~mounted => ~isEncoding

\* The component was unmounted while a job was in flight, and the handler
\* that job's trigger registered is gone
C12_Witness ==
  /\ ~mounted
  /\ jobs # {}
  /\ beforeUnload = 0

\* C13: whenever isEncoding is false the estimator is reset: no start
\* timestamp, elapsed 0 and estimated 0, so a job starts from cleared state
\* whether the job before it succeeded or failed.
C13_EstimatorResetWhenInactive ==
  ~isEncoding =>
    /\ startTimeRef = NoStart
    /\ elapsedTime = 0
    /\ estimatedTime = 0

\* A job that reported progress 25% and then 100% over at least one second
\* has just ended successfully
C13_Witness ==
  /\ ~isEncoding
  /\ calls # <<>> /\ calls[Len(calls)] = Notify(SuccessNote)
  /\ progress = 100
  /\ now >= 1000
  /\ elapsedTime = 0

\* C14: at every observation made while active with progress > 0 (a run of
\* the estimator effect), elapsed is the whole seconds since the start
\* timestamp and estimated is floor(elapsed / progress); this relation holds
\* whenever the job is active with progress > 0; and the remaining time
\* displayed is max(estimated - elapsed, 1), hence at least 1.
C14_EstimateIsElapsedOverProgress ==
  /\ [][(isEncoding' /\ progress' > 0
           /\ (isEncoding' # isEncoding \/ progress' # progress)) =>
          /\ startTimeRef' # NoStart
          /\ 1000 * elapsedTime' <= now' - startTimeRef'
          /\ now' - startTimeRef' < 1000 * (elapsedTime' + 1)
          /\ estimatedTime' * progress' <= elapsedTime' * 100
          /\ elapsedTime' * 100 < (estimatedTime' + 1) * progress']_vars
  /\ []((isEncoding /\ progress > 0) =>
          /\ estimatedTime * progress <= elapsedTime * 100
          /\ elapsedTime * 100 < (estimatedTime + 1) * progress)
  /\ [](/\ RemainingTime >= 1
        /\ RemainingTime >= estimatedTime - elapsedTime
        /\ RemainingTime \in {1, estimatedTime - elapsedTime})

\* Progress 25% was observed 2.5 s after the start timestamp: elapsed 2 s,
\* estimated total 8 s, 6 s remaining
C14_Witness ==
  /\ isEncoding
  /\ progress = 25
  /\ now - startTimeRef = 2500
  /\ elapsedTime = 2
  /\ estimatedTime = 8
  /\ RemainingTime = 6

\* C15: a click on the clear-logs button empties the logs and leaves
\* everything else as it was: the engine and its readiness, the progress,
\* the in-flight flag, the stored result URL and the live object URLs, the
\* jobs in progress, the file and the settings, the estimator and the
\* beforeunload handler.
C15_ClearLogsFrame ==
  [][ClickClearLogs =>
       /\ logs' = <<>>
       /\ UNCHANGED <<engineVars, mountVars, loaded, progress, settingVars,
                      file, isEncoding, encodedVideoUrl, jobs, started,
                      liveUrls, lastNote, beforeUnload, timeVars>>]_vars

\* The logs were cleared while a job was executing at 25%
C15_Witness ==
  /\ calls = <<Call("clearLogs", "", NoUrl)>>
  /\ logs = <<>>
  /\ isEncoding
  /\ Executing
  /\ progress = 25

\* C16: the filter passed to exec is determined by the job's strategy, size
\* and background color: for cover it is the crop to the square of side
\* min(iw,ih) followed by the scale to size x size, without pad; for contain
\* it is the aspect-preserving scale to fit size x size followed by the
\* centered pad to size x size in the background color written 0xRRGGBB.
C16_FilterExpression ==
  \A j \in jobs :
    j.phase # "staging" =>
      LET size == ToString(j.args.resolution)
          box == size \o ":" \o size
          rrggbb == Join(Tail(j.backgroundColor))
      IN /\ Head(j.backgroundColor) = "#"
         /\ j.scalingStrategy = "cover" =>
              j.args.filter =
                "crop=min(iw\\,ih):min(iw\\,ih),scale=" \o box
         /\ j.scalingStrategy = "contain" =>
              j.args.filter =
                "scale=" \o box \o ":force_original_aspect_ratio=decrease"
                  \o ",pad=" \o box \o ":-1:-1:color=0x" \o rrggbb

\* exec runs with the contain filter for 1920 x 1920 on white
C16_Witness ==
  \E j \in jobs :
    /\ j.phase = "executing"
    /\ j.scalingStrategy = "contain"
    /\ j.args.filter = "scale=1920:1920:force_original_aspect_ratio=decrease,pad=1920:1920:-1:-1:color=0xffffff"

\* C17: the resolution and bitrate passed to exec are those of the selected
\* preset, verbatim, if it has concrete values (480 with "1M", 720 with
\* "1.5M"), and for the custom preset the user's customResolution and
\* customBitrate, the bitrate written as the number of Mbps followed by M.
C17_SettingsResolution ==
  \A j \in jobs :
    j.phase # "staging" =>
      /\ selectedPreset = "sd" =>
           j.args.resolution = 480 /\ j.args.bitrate = "1M"
      /\ selectedPreset = "hd" =>
           j.args.resolution = 720 /\ j.args.bitrate = "1.5M"
      /\ selectedPreset = CUSTOM =>
           /\ j.args.resolution = customResolution
           /\ customBitrate = 5 => j.args.bitrate = "0.5M"
           /\ customBitrate = 10 => j.args.bitrate = "1M"
           /\ customBitrate = 100 => j.args.bitrate = "10M"
           /\ customBitrate \in {5, 10, 100}
      /\ selectedPreset \in {"sd", "hd", CUSTOM}

\* exec runs with the custom settings 1920 and 0.5 Mbps
C17_Witness ==
  \E j \in jobs :
    /\ j.phase = "executing"
    /\ selectedPreset = CUSTOM
    /\ customResolution = 1920 /\ customBitrate = 5
    /\ j.args.resolution = 1920
    /\ j.args.bitrate = "0.5M"

\* A file name without its extension: the characters before its last dot,
\* or all of them if it has no dot
BaseName(chars) ==
  LET dots == {i \in 1..Len(chars) : chars[i] = "."}
  IN IF dots = {} THEN chars
     ELSE SubSeq(chars, 1, (CHOOSE i \in dots : \A k \in dots : k <= i) - 1)

\* C18: every download of a result, the automatic one and each re-download,
\* is named encoded_<base name>.mp4, the base name being the source file's
\* name without its extension.
C18_DownloadName ==
  \A i \in 1..Len(calls) :
    calls[i].op = "a.click" =>
      calls[i].arg = "encoded_" \o Join(BaseName(file)) \o ".mp4"

\* Does the step make a call named op
Calls(op) == \E i \in 1..Len(calls') : calls'[i].op = op

\* Job j goes from the engine calls `before` to the engine calls `after`
Advances(j, before, after) ==
  /\ j.trace = before
  /\ \E k \in jobs' : k.id = j.id /\ k.trace = after

\* C19: a job makes its calls in the order writeFile, exec, readFile,
\* publish: exec is called by the step in which the job's writeFile
\* completes, readFile by the step in which its exec completes, and the
\* object URL, the automatic download and the success notification are made,
\* once each and in this order, by the step in which its readFile completes,
\* which ends the job; by then the job has called writeFile, exec and
\* readFile once each.
C19_StepOrder ==
  [][/\ Calls("ffmpeg.writeFile") =>
          /\ \A j \in jobs' \ jobs : j.trace = <<"writeFile">>
          /\ \A j \in jobs : j \in jobs'
     /\ Calls("ffmpeg.exec") =>
          \E j \in jobs :
            Advances(j, <<"writeFile">>, <<"writeFile", "exec">>)
     /\ Calls("ffmpeg.readFile") =>
          \E j \in jobs :
            Advances(j, <<"writeFile", "exec">>,
                        <<"writeFile", "exec", "readFile">>)
     /\ (\/ Calls("URL.createObjectURL")
         \/ Calls("a.click") /\ isEncoding
         \/ \E i \in 1..Len(calls') : calls'[i] = Notify(SuccessNote)) =>
          \E j \in jobs :
            /\ j.trace = <<"writeFile", "exec", "readFile">>
            /\ \A k \in jobs' : k.id # j.id
            /\ calls' = << Call("URL.createObjectURL", "", j.id),
                           Call("a.click", AutoDownloadName(j.file), j.id),
                           Notify(SuccessNote) >>]_vars

\* The first job has succeeded: its step created URL 1, downloaded it as
\* encoded_a.mp4 and notified success
C19_Witness ==
  /\ calls = << Call("URL.createObjectURL", "", 1),
               Call("a.click", "encoded_a.mp4", 1),
               Notify(SuccessNote) >>
  /\ jobs = {}
  /\ encodedVideoUrl = 1
  /\ liveUrls = {1}

\* C20: the resolution, bitrate, scaling strategy and background color
\* passed to exec are those the trigger captured, which had passed the
\* validation if the preset was the custom one; and as long as the
\* component that started the job is mounted, its settings are still the
\* captured ones. Should the component's state change while the job is
\* suspended (the component is unmounted and a new one is mounted), exec
\* still gets the captured values.
C20_ArgsAreTriggerValues ==
  \A j \in jobs :
    LET preset == FindPreset(j.preset)
        resolution == IF j.preset = CUSTOM
                      THEN j.customResolution ELSE preset.resolution
    IN /\ j.phase # "staging" =>
            /\ j.args.resolution = resolution
            /\ j.args.bitrate = IF j.preset = CUSTOM
                                THEN CustomBitrateArg(j.customBitrate)
                                ELSE preset.bitrate
            /\ j.args.filter = getScalingFilter(j.scalingStrategy,
                                                j.backgroundColor, resolution)
       /\ j.preset = CUSTOM =>
            validateCustomSettings(j.customResolution, j.customBitrate)
              = NoError
       /\ Alive(j.inst) =>
            /\ isEncoding
            /\ selectedPreset = j.preset
            /\ customResolution = j.customResolution
            /\ customBitrate = j.customBitrate
            /\ scalingStrategy = j.scalingStrategy
            /\ backgroundColor = j.backgroundColor

\* A job triggered with the contain strategy executes with the contain
\* filter although the component's strategy is cover by now
C20_Witness ==
  \E j \in jobs :
    /\ j.phase = "executing"
    /\ j.scalingStrategy = "contain"
    /\ scalingStrategy = "cover"
    /\ j.args.filter = "scale=480:480:force_original_aspect_ratio=decrease,pad=480:480:-1:-1:color=0x000000"

\* C21: while a job is active the start timestamp is taken at the first
\* observation with progress > 0, not before, and is kept as it is by every
\* later step of that job; at every observation elapsed is the whole seconds
\* from that timestamp to now.
C21_StartCapturedOnce ==
  /\ [](isEncoding /\ progress > 0 => startTimeRef # NoStart)
  /\ [](startTimeRef # NoStart => isEncoding /\ startTimeRef <= now)
  /\ [][isEncoding' =>
          /\ (startTimeRef # NoStart /\ isEncoding) =>
               startTimeRef' = startTimeRef
          /\ (startTimeRef = NoStart \/ ~isEncoding) =>
               startTimeRef' = IF progress' > 0 THEN now' ELSE NoStart
          /\ (progress' > 0
                /\ (progress' # progress \/ isEncoding' # isEncoding)) =>
               /\ 1000 * elapsedTime' <= now' - startTimeRef'
               /\ now' - startTimeRef' < 1000 * (elapsedTime' + 1)]_vars

\* The first job's progress was first observed at 0.5 s; a later observation,
\* of 100%, found elapsed 2 s counted from that same timestamp
C21_Witness ==
  /\ isEncoding
  /\ started = 1
  /\ startTimeRef = 500
  /\ progress = 100
  /\ elapsedTime = 2
  /\ now >= 2500

\* C22: a stored result URL is that of the most recently started job, which
\* has completed successfully, and was made from the file now selected. It
\* is stored only by the step that completes a job of the selected file; as
\* long as it stays stored the file is not changed and no job is started;
\* and the file does not change while a job is in flight.
C22_HandleProvenance ==
  /\ [](encodedVideoUrl # NoUrl =>
          /\ encodedVideoUrl = started
          /\ encodedVideoUrl \in liveUrls
          /\ jobs = {} /\ ~isEncoding
          /\ file # NoFile)
  /\ [][(encodedVideoUrl' # NoUrl /\ encodedVideoUrl' # encodedVideoUrl) =>
          \E j \in jobs :
            /\ j.phase = "extracting"
            /\ jobs' = jobs \ {j}
            /\ encodedVideoUrl' = j.id
            /\ j.file = file /\ file' = file
            /\ lastNote' = SuccessNote]_vars
  /\ [][(encodedVideoUrl # NoUrl /\ encodedVideoUrl' = encodedVideoUrl) =>
          /\ file' = file
          /\ started' = started
          /\ jobs' = {}]_vars
  /\ [][(jobs # {} \/ jobs' # {}) =>
          /\ file' = file
          /\ \A j \in jobs \cup jobs' : j.file = file]_vars

\* The result of the second job, made from a.b.mov, is stored, and the first
\* job's URL has been released
C22_Witness ==
  /\ encodedVideoUrl = 2
  /\ started = 2
  /\ liveUrls = {2}
  /\ file = <<"a", ".", "b", ".", "m", "o", "v">>
  /\ lastNote = SuccessNote

\* C23: every click on the encode trigger made with a file selected and the
\* engine ready leaves no result URL stored, and the URL that was stored is
\* revoked by that step, whether the click starts a job or is rejected by
\* the validation of the custom settings.
C23_TriggerReleasesHandle ==
  [][(ClickEncode /\ file # NoFile /\ engine = "Ready") =>
       /\ encodedVideoUrl' = NoUrl
       /\ liveUrls' = liveUrls \ {encodedVideoUrl}
       /\ encodedVideoUrl # NoUrl =>
            /\ encodedVideoUrl \in liveUrls
            /\ \E i \in 1..Len(calls') :
                 calls'[i] = Call("URL.revokeObjectURL", "", encodedVideoUrl)]_vars

\* A trigger was rejected by the validation, and the step revoked the stored
\* URL of the first job
C23_Witness ==
  /\ lastNote.kind = "validation"
  /\ calls = <<Notify(lastNote), Call("URL.revokeObjectURL", "", 1)>>
  /\ encodedVideoUrl = NoUrl
  /\ liveUrls = {}
  /\ jobs = {}
  /\ started = 1

====
